---- MODULE Spec2Model ----
(***************************************************************************)
(* A model of base32_crockford.py: encode, decode and normalize over the   *)
(* module's constant tables.  A Python string is a record                  *)
(* [kind, chars]: kind is the Python 2 type of the object ("str",          *)
(* "unicode", "bytearray", or "NoneType" for an object that is no string)  *)
(* and chars is the sequence of its characters, one-character strings.     *)
(* The outcome of a call is a record [exc, msg, val]: exc is "none" and    *)
(* val = <<result>> when the call returns, exc is the exception type, msg  *)
(* the fixed part of its message and val = <<>> when the call raises.      *)
(***************************************************************************)
EXTENDS Integers, Sequences, FiniteSets, TLC

VARIABLES number, checksum, strict, symbol_string, encoded, normalized, decoded

vars == <<number, checksum, strict, symbol_string, encoded, normalized, decoded>>

(* ---------------------------------------------------------------- bounds *)

\* encode is applied to every integer of 0..MaxNumber.
MaxNumber == 1100

\* Caller-supplied str objects have at most MaxLen characters.
MaxLen == 3

\* Caller-supplied unicode and bytearray objects have at most MaxOtherLen.
MaxOtherLen == 2

\* In the error-kind specification: strings of at most MaxErrLen characters.
MaxErrLen == 1

(* ------------------------------------------------------ outcomes of calls *)

Return(v) == [exc |-> "none", msg |-> "", val |-> <<v>>]

Raise(e, m) == [exc |-> e, msg |-> m, val |-> <<>>]

\* The value of a result variable before the call is made.
NotCalled == [exc |-> "none", msg |-> "not called", val |-> <<>>]

Returned(r) == r.exc = "none" /\ Len(r.val) = 1

Raised(r) == r.exc # "none"

Str(chars) == [kind |-> "str", chars |-> chars]

(* ----------------------------------------------------------------- tables *)

symbols ==
  << "0", "1", "2", "3", "4", "5", "6", "7", "8", "9", "A", "B", "C", "D", "E", "F",
     "G", "H", "J", "K", "M", "N", "P", "Q", "R", "S", "T", "V", "W", "X", "Y", "Z" >>

check_symbols == << "*", "~", "$", "=", "U" >>

base == Len(symbols)

check_base == Len(symbols \o check_symbols)

encode_symbols == [i \in 0 .. (check_base - 1) |-> (symbols \o check_symbols)[i + 1]]

SymbolSet == {encode_symbols[i] : i \in DOMAIN encode_symbols}

decode_symbols == [ch \in SymbolSet |-> CHOOSE i \in DOMAIN encode_symbols : encode_symbols[i] = ch]

\* string.maketrans('IiLlOo', '111100'), applied to one character.
normalize_symbols(ch) ==
  IF ch \in {"I", "i", "L", "l"} THEN "1"
  ELSE IF ch \in {"O", "o"} THEN "0"
  ELSE ch

ascii_lowercase ==
  << "a", "b", "c", "d", "e", "f", "g", "h", "i", "j", "k", "l", "m",
     "n", "o", "p", "q", "r", "s", "t", "u", "v", "w", "x", "y", "z" >>

ascii_uppercase ==
  << "A", "B", "C", "D", "E", "F", "G", "H", "I", "J", "K", "L", "M",
     "N", "O", "P", "Q", "R", "S", "T", "U", "V", "W", "X", "Y", "Z" >>

\* str.upper(), applied to one character.
upper(ch) ==
  IF \E i \in DOMAIN ascii_lowercase : ascii_lowercase[i] = ch
  THEN ascii_uppercase[CHOOSE i \in DOMAIN ascii_lowercase : ascii_lowercase[i] = ch]
  ELSE ch

\* A character outside ASCII (one token stands for the character).
NonAscii == "xE9"

LineBreak == "\n"

IsAscii(ch) == ch # NonAscii

\* str.translate(normalize_symbols, '-'): '-' is deleted, the rest mapped.
RECURSIVE translate(_)
translate(chars) ==
  IF chars = <<>> THEN <<>>
  ELSE IF Head(chars) = "-" THEN translate(Tail(chars))
  ELSE <<normalize_symbols(Head(chars))>> \o translate(Tail(chars))

upper_all(chars) == [i \in DOMAIN chars |-> upper(chars[i])]

InSymbols(ch) == \E i \in DOMAIN symbols : symbols[i] = ch

InCheckSymbols(ch) == \E i \in DOMAIN check_symbols : check_symbols[i] = ch

\* The text [symbols]+[check_symbols]? spanning the whole of chars.
MatchBody(chars) ==
  /\ Len(chars) >= 1
  /\ \E k \in {Len(chars) - 1, Len(chars)} :
       /\ k >= 1
       /\ \A i \in 1 .. k : InSymbols(chars[i])
       /\ \A i \in (k + 1) .. Len(chars) : InCheckSymbols(chars[i])

\* valid_symbols.match: '^[symbols]+[check_symbols]?$'.  Python's '$' matches
\* at the end of the string and also just before a line break that ends it.
valid_symbols(chars) ==
  \/ MatchBody(chars)
  \/ /\ Len(chars) >= 1
     /\ chars[Len(chars)] = LineBreak
     /\ MatchBody(SubSeq(chars, 1, Len(chars) - 1))

bytes_types == {"str", "bytearray"}

string_types == {"str", "unicode"}

(* ----------------------------------------------------------------- encode *)

\* encode_loop with the digits collected least-significant first and never
\* reversed.
RECURSIVE encode_loop_unreversed(_, _)
encode_loop_unreversed(n, acc) ==
  IF n > 0
  THEN encode_loop_unreversed(n \div base, acc \o <<encode_symbols[n % base]>>)
  ELSE acc

RECURSIVE encode_loop(_, _)
encode_loop(n, acc) ==
  IF n > 0
  THEN encode_loop(n \div base, <<encode_symbols[n % base]>> \o acc)
  ELSE acc

\* encode that reports a negative number as a TypeError.
encode_negative_type_error(n, with_checksum) ==
  IF n < 0 THEN Raise("TypeError", "is not a positive integer")
  ELSE LET check_symbol == IF with_checksum THEN <<encode_symbols[n % check_base]>> ELSE <<>>
       IN  IF n = 0 THEN Return(Str(<<"0">> \o check_symbol))
           ELSE Return(Str(encode_loop(n, <<>>) \o check_symbol))

\* encode with the check symbol taken from the number the division loop
\* leaves behind (zero) instead of the number passed in.
encode_check_after_loop(n, with_checksum) ==
  IF n < 0 THEN Raise("ValueError", "is not a positive integer")
  ELSE LET check_symbol == IF with_checksum THEN <<encode_symbols[0 % check_base]>> ELSE <<>>
       IN  IF n = 0 THEN Return(Str(<<"0">> \o check_symbol))
           ELSE Return(Str(encode_loop(n, <<>>) \o check_symbol))

encode(n, with_checksum) ==
  IF n < 0 THEN Raise("ValueError", "is not a positive integer")
  ELSE LET check_symbol == IF with_checksum THEN <<encode_symbols[n % check_base]>> ELSE <<>>
       IN  IF n = 0 THEN Return(Str(<<"0">> \o check_symbol))
           ELSE Return(Str(encode_loop(n, <<>>) \o check_symbol))

(* -------------------------------------------------------------- normalize *)

\* normalize whose strict comparison is made against the input with its
\* hyphens already removed.
normalize_strict_after_hyphens(s, is_strict) ==
  IF s.kind \notin bytes_types /\ s.kind \notin string_types
  THEN Raise("TypeError", "should be bytes or ASCII")
  ELSE IF s.kind \notin bytes_types /\ \E i \in DOMAIN s.chars : ~IsAscii(s.chars[i])
  THEN Raise("ValueError", "should only contain ASCII characters")
  ELSE LET kind == IF s.kind \in bytes_types THEN s.kind ELSE "str"
           string == upper_all(translate(s.chars))
           unhyphened == SelectSeq(s.chars, LAMBDA c : c # "-")
       IN  IF ~valid_symbols(string)
           THEN Raise("ValueError", "contains invalid characters")
           ELSE IF is_strict /\ string # unhyphened
           THEN Raise("ValueError", "requires normalization")
           ELSE Return([kind |-> kind, chars |-> string])

\* translate that deletes the first hyphen only.
RECURSIVE translate_first_hyphen(_)
translate_first_hyphen(chars) ==
  IF chars = <<>> THEN <<>>
  ELSE IF Head(chars) = "-"
  THEN [i \in DOMAIN Tail(chars) |-> normalize_symbols(Tail(chars)[i])]
  ELSE <<normalize_symbols(Head(chars))>> \o translate_first_hyphen(Tail(chars))

\* normalize that validates the fully cleaned string and returns the string
\* with only its first hyphen deleted.
normalize_strips_one_hyphen(s, is_strict) ==
  IF s.kind \notin bytes_types /\ s.kind \notin string_types
  THEN Raise("TypeError", "should be bytes or ASCII")
  ELSE IF s.kind \notin bytes_types /\ \E i \in DOMAIN s.chars : ~IsAscii(s.chars[i])
  THEN Raise("ValueError", "should only contain ASCII characters")
  ELSE LET kind == IF s.kind \in bytes_types THEN s.kind ELSE "str"
           string == upper_all(translate(s.chars))
       IN  IF ~valid_symbols(string)
           THEN Raise("ValueError", "contains invalid characters")
           ELSE IF is_strict /\ string # s.chars
           THEN Raise("ValueError", "requires normalization")
           ELSE Return([kind |-> kind, chars |-> upper_all(translate_first_hyphen(s.chars))])

normalize(s, is_strict) ==
  IF s.kind \notin bytes_types /\ s.kind \notin string_types
  THEN Raise("TypeError", "should be bytes or ASCII")
  ELSE IF s.kind \notin bytes_types /\ \E i \in DOMAIN s.chars : ~IsAscii(s.chars[i])
  THEN Raise("ValueError", "should only contain ASCII characters")
  ELSE LET kind == IF s.kind \in bytes_types THEN s.kind ELSE "str"
           string == upper_all(translate(s.chars))
       IN  IF ~valid_symbols(string)
           THEN Raise("ValueError", "contains invalid characters")
           ELSE IF is_strict /\ string # s.chars
           THEN Raise("ValueError", "requires normalization")
           ELSE Return([kind |-> kind, chars |-> string])

(* ----------------------------------------------------------------- decode *)

\* Whether decode_symbols[...] finds the i-th item of s.  Iterating or
\* indexing a bytearray yields integers, which are no keys of the table.
HasKey(s, i) == s.kind # "bytearray" /\ s.chars[i] \in DOMAIN decode_symbols

\* The for loop of decode over items i..last of s, from the value acc.
RECURSIVE decode_loop(_, _, _, _)
decode_loop(s, i, last, acc) ==
  IF i > last THEN Return(acc)
  ELSE IF ~HasKey(s, i) THEN Raise("KeyError", s.chars[i])
  ELSE decode_loop(s, i + 1, last, acc * base + decode_symbols[s.chars[i]])

\* decode that calls normalize for its checks and then reads the string it
\* was given instead of the normalized one.
decode_reads_input(s, with_checksum, is_strict) ==
  LET n == normalize(s, is_strict)
  IN  IF Raised(n) THEN n
      ELSE LET t == s
               last == IF with_checksum THEN Len(t.chars) - 1 ELSE Len(t.chars)
               body == decode_loop(t, 1, last, 0)
           IN  IF Raised(body) \/ ~with_checksum THEN body
               ELSE IF ~HasKey(t, Len(t.chars)) THEN Raise("KeyError", t.chars[Len(t.chars)])
               ELSE IF decode_symbols[t.chars[Len(t.chars)]] # body.val[1] % check_base
               THEN Raise("ValueError", "invalid check symbol")
               ELSE body

\* decode that splits off the check symbol and never compares it.
decode_unchecked(s, with_checksum, is_strict) ==
  LET n == normalize(s, is_strict)
  IN  IF Raised(n) THEN n
      ELSE LET t == n.val[1]
               last == IF with_checksum THEN Len(t.chars) - 1 ELSE Len(t.chars)
           IN  decode_loop(t, 1, last, 0)

decode(s, with_checksum, is_strict) ==
  LET n == normalize(s, is_strict)
  IN  IF Raised(n) THEN n
      ELSE LET t == n.val[1]
               last == IF with_checksum THEN Len(t.chars) - 1 ELSE Len(t.chars)
               body == decode_loop(t, 1, last, 0)
           IN  IF Raised(body) \/ ~with_checksum THEN body
               ELSE IF ~HasKey(t, Len(t.chars)) THEN Raise("KeyError", t.chars[Len(t.chars)])
               ELSE IF decode_symbols[t.chars[Len(t.chars)]] # body.val[1] % check_base
               THEN Raise("ValueError", "invalid check symbol")
               ELSE body

(* ----------------------------------------------------------- the callers *)

\* The value of symbol_string before a caller has supplied one.
NoInput == [kind |-> "unset", chars |-> <<>>]

\* The characters callers type: digits, a letter in both cases, letters
\* normalize substitutes, the hyphen, a check symbol, the lower-case check
\* letter, a disallowed character, a line break and a non-ASCII character.
Alphabet ==
  { "0", "1", "A", "a", "i", "L", "o", "-", "*", "u", "!", LineBreak, NonAscii }

RECURSIVE Strings(_)
Strings(n) ==
  IF n = 0 THEN {<<>>}
  ELSE LET shorter == Strings(n - 1)
       IN  shorter \cup {Append(s, c) : s \in {x \in shorter : Len(x) = n - 1}, c \in Alphabet}

\* Every object a caller passes as symbol_string: a str of at most n
\* characters, a unicode or bytearray of at most m, or an object of no
\* string type.
Inputs(n, m) ==
  {Str(s) : s \in Strings(n)}
    \cup {[kind |-> k, chars |-> s] : k \in {"unicode", "bytearray"}, s \in Strings(m)}
    \cup {[kind |-> "NoneType", chars |-> <<>>]}

Replace(chars, i, c) == [chars EXCEPT ![i] = c]

(* ---------------------------------------------------------------- actions *)

\* encode(number, checksum)
Encode ==
  /\ encoded = NotCalled
  /\ encoded' = encode(number, checksum)
  /\ UNCHANGED <<number, checksum, strict, symbol_string, normalized, decoded>>

\* normalize(symbol_string, strict)
Normalize ==
  /\ symbol_string # NoInput
  /\ normalized = NotCalled
  /\ normalized' = normalize(symbol_string, strict)
  /\ UNCHANGED <<number, checksum, strict, symbol_string, encoded, decoded>>

\* decode(symbol_string, checksum, strict)
Decode ==
  /\ symbol_string # NoInput
  /\ decoded = NotCalled
  /\ decoded' = decode(symbol_string, checksum, strict)
  /\ UNCHANGED <<number, checksum, strict, symbol_string, encoded, normalized>>

\* decode(encode(number, checksum), checksum, strict)
DecodeEncoded ==
  /\ Returned(encoded)
  /\ symbol_string = NoInput
  /\ symbol_string' = encoded.val[1]
  /\ decoded' = decode(encoded.val[1], checksum, strict)
  /\ UNCHANGED <<number, checksum, strict, encoded, normalized>>

\* decode of encode's output with one character replaced by another symbol.
DecodeCorrupted ==
  /\ Returned(encoded)
  /\ symbol_string = NoInput
  /\ \E i \in DOMAIN encoded.val[1].chars, c \in SymbolSet :
       /\ c # encoded.val[1].chars[i]
       /\ symbol_string' = Str(Replace(encoded.val[1].chars, i, c))
       /\ decoded' = decode(symbol_string', checksum, strict)
  /\ UNCHANGED <<number, checksum, strict, encoded, normalized>>

(* --------------------------------------------------------- specifications *)

\* Round trips: encode on every number of the range, decode on its output.
Init ==
  /\ number \in 0 .. MaxNumber
  /\ checksum \in BOOLEAN
  /\ strict \in BOOLEAN
  /\ symbol_string = NoInput
  /\ encoded = NotCalled
  /\ normalized = NotCalled
  /\ decoded = NotCalled

Next == Encode \/ DecodeEncoded \/ DecodeCorrupted

Spec == Init /\ [][Next]_vars

\* normalize and decode on every caller-supplied string of the bound.
InitDecode ==
  /\ number = 0
  /\ checksum \in BOOLEAN
  /\ strict \in BOOLEAN
  /\ symbol_string \in Inputs(MaxLen, MaxOtherLen)
  /\ encoded = NotCalled
  /\ normalized = NotCalled
  /\ decoded = NotCalled

NextDecode == Normalize \/ Decode

SpecDecode == InitDecode /\ [][NextDecode]_vars

\* The three functions side by side, for the errors they raise.
InitErrors ==
  /\ number \in -1 .. 1
  /\ checksum \in BOOLEAN
  /\ strict \in BOOLEAN
  /\ symbol_string \in Inputs(MaxErrLen, MaxErrLen)
  /\ encoded = NotCalled
  /\ normalized = NotCalled
  /\ decoded = NotCalled

NextErrors == Encode \/ Normalize \/ Decode

SpecErrors == InitErrors /\ [][NextErrors]_vars

(* ------------------------------------------------ what the claims speak of *)

\* The value of character ch as a base-32 digit: its place in symbols.
DigitValue(ch) == (CHOOSE i \in DOMAIN symbols : symbols[i] = ch) - 1

RECURSIVE Power(_, _)
Power(b, k) == IF k = 0 THEN 1 ELSE b * Power(b, k - 1)

\* The number a most-significant-first digit string denotes in base 32.
RECURSIVE PositionalValue(_)
PositionalValue(chars) ==
  IF chars = <<>> THEN 0
  ELSE DigitValue(Head(chars)) * Power(32, Len(chars) - 1) + PositionalValue(Tail(chars))

AllButLast(chars) == SubSeq(chars, 1, Len(chars) - 1)

Last(chars) == chars[Len(chars)]

\* The 37-symbol table, written out: value v is the (v+1)-th character.
Table37 ==
  << "0", "1", "2", "3", "4", "5", "6", "7", "8", "9", "A", "B", "C", "D", "E", "F",
     "G", "H", "J", "K", "M", "N", "P", "Q", "R", "S", "T", "V", "W", "X", "Y", "Z",
     "*", "~", "$", "=", "U" >>

InTable37(ch) == \E i \in DOMAIN Table37 : Table37[i] = ch

TableValue(ch) == (CHOOSE i \in DOMAIN Table37 : Table37[i] = ch) - 1

\* decode has been applied to exactly what encode returned.
DecodedEncoded ==
  /\ Returned(encoded)
  /\ decoded # NotCalled
  /\ symbol_string = encoded.val[1]

\* decode has been applied to what encode returned with the one character at
\* body position i replaced by another character of the 32-symbol alphabet.
BodyCorruptedAt(i) ==
  /\ Returned(encoded)
  /\ decoded # NotCalled
  /\ Len(symbol_string.chars) = Len(encoded.val[1].chars)
  /\ i < Len(symbol_string.chars)
  /\ symbol_string.chars[i] # encoded.val[1].chars[i]
  /\ InSymbols(symbol_string.chars[i])
  /\ \A j \in DOMAIN symbol_string.chars : j # i => symbol_string.chars[j] = encoded.val[1].chars[j]

\* The transformed form of a string: hyphens removed, I, i, L, l turned
\* into 1, O, o into 0, and every letter upper-cased.
TransformedChar(c) ==
  IF c \in {"I", "i", "L", "l"} THEN "1"
  ELSE IF c \in {"O", "o"} THEN "0"
  ELSE upper(c)

TransformedForm(chars) ==
  LET kept == SelectSeq(chars, LAMBDA c : c # "-")
  IN  [i \in DOMAIN kept |-> TransformedChar(kept[i])]

\* The validity pattern: one or more characters of the 32-symbol alphabet,
\* optionally followed by exactly one check symbol as the final character.
WellFormed(t) ==
  /\ Len(t) >= 1
  /\ \A i \in 1 .. (Len(t) - 1) : InSymbols(t[i])
  /\ \/ InSymbols(Last(t))
     \/ Len(t) >= 2 /\ InCheckSymbols(Last(t))

\* The caller passed text: a str, unicode or bytearray object.
IsText(s) == s.kind \in {"str", "unicode", "bytearray"}

\* The two messages of the InvalidCharacter kind.
IsInvalidCharacter(r) ==
  /\ r.exc = "ValueError"
  /\ r.msg \in {"contains invalid characters", "should only contain ASCII characters"}

\* The error kind a raised outcome belongs to, read off its message.
ErrorKind(r) ==
  CASE r.msg = "is not a positive integer" -> "NegativeValue"
    [] r.msg \in {"contains invalid characters", "should only contain ASCII characters"} ->
         "InvalidCharacter"
    [] r.msg = "requires normalization" -> "RequiresNormalization"
    [] r.msg = "invalid check symbol" -> "ChecksumMismatch"
    [] r.msg = "should be bytes or ASCII" -> "InvalidType"
    [] OTHER -> "other"

FiveKinds ==
  {"NegativeValue", "InvalidCharacter", "RequiresNormalization", "ChecksumMismatch", "InvalidType"}

\* Two raised outcomes of different kinds among the five carry different
\* exception types.
ToldApartByType(r1, r2) ==
  ( /\ Raised(r1)
    /\ Raised(r2)
    /\ ErrorKind(r1) \in FiveKinds
    /\ ErrorKind(r2) \in FiveKinds
    /\ ErrorKind(r1) # ErrorKind(r2) )
  => r1.exc # r2.exc

(* ----------------------------------------------------------------- claims *)

\* C1: for every number n of the range, decode(encode(n)) returns n, and so
\* does decode(encode(n, checksum), checksum); neither call raises.
C1_RoundTrip ==
  /\ encoded # NotCalled => Returned(encoded)
  /\ DecodedEncoded => decoded = Return(number)

C1_Witness ==
  /\ DecodedEncoded
  /\ checksum
  /\ number >= 32 * 32
  /\ decoded = Return(number)

\* C6: encode(n) is the base-32 expansion of n over the 32 symbols, most
\* significant digit first, without a leading "0" unless n = 0, which gives
\* "0"; with checksum it is followed by the one table symbol of n mod 37;
\* the output holds no lower-case letter and no hyphen.
C6_EncodeExpansion ==
  encoded # NotCalled =>
    /\ Returned(encoded)
    /\ LET out == encoded.val[1].chars
           digits == IF checksum THEN AllButLast(out) ELSE out
       IN  /\ Len(digits) >= 1
           /\ \A i \in DOMAIN digits : InSymbols(digits[i])
           /\ PositionalValue(digits) = number
           /\ (digits[1] = "0") => (number = 0 /\ digits = <<"0">>)
           /\ checksum => (Len(out) = Len(digits) + 1 /\ Last(out) = Table37[(number % 37) + 1])
           /\ \A i \in DOMAIN out :
                /\ out[i] # "-"
                /\ \A j \in DOMAIN ascii_lowercase : out[i] # ascii_lowercase[j]

C6_Witness ==
  /\ Returned(encoded)
  /\ checksum
  /\ number >= 32 * 32
  /\ number % 37 >= 32
  /\ InCheckSymbols(Last(encoded.val[1].chars))

\* C10: replacing one body character of encode(n, checksum=true) by another
\* character of the 32-symbol alphabet always makes decode with checksum
\* raise the check-symbol error; it never returns a number.
C10_BodySubstitutionDetected ==
  \A i \in DOMAIN symbol_string.chars :
    (checksum /\ BodyCorruptedAt(i)) => decoded = Raise("ValueError", "invalid check symbol")

C10_Witness ==
  /\ checksum
  /\ number >= 32 * 32
  /\ BodyCorruptedAt(2)
  /\ decoded = Raise("ValueError", "invalid check symbol")

\* C2: decode without checksum raises the invalid-character error for every
\* text whose transformed form holds a check symbol, a trailing one included.
C2_CheckSymbolRejectedWithoutChecksum ==
  ( /\ decoded # NotCalled
    /\ ~checksum
    /\ IsText(symbol_string)
    /\ \E i \in DOMAIN TransformedForm(symbol_string.chars) :
         InCheckSymbols(TransformedForm(symbol_string.chars)[i]) )
  => IsInvalidCharacter(decoded)

\* C3: when normalize returns t for a str or unicode input, decode with
\* checksum returns the base-32 value of t without its last character if the
\* table value of that last character equals the value mod 37, and raises
\* the check-symbol error otherwise.
C3_ChecksumDecides ==
  ( /\ symbol_string.kind \in string_types
    /\ Returned(normalized)
    /\ decoded # NotCalled
    /\ checksum ) =>
    LET t == normalized.val[1].chars
        body == AllButLast(t)
        agrees == /\ \A i \in DOMAIN body : InSymbols(body[i])
                  /\ InTable37(Last(t))
                  /\ TableValue(Last(t)) = PositionalValue(body) % 37
    IN  IF agrees
        THEN decoded = Return(PositionalValue(body))
        ELSE decoded = Raise("ValueError", "invalid check symbol")

\* C4: for a text whose transformed form t matches the validity pattern,
\* normalize returns t unless strict is set and t differs from the input,
\* when it raises the requires-normalization error; decode with strict set
\* raises the same error.
C4_StrictMode ==
  (IsText(symbol_string) /\ WellFormed(TransformedForm(symbol_string.chars))) =>
    LET t == TransformedForm(symbol_string.chars)
        differs == t # symbol_string.chars
    IN  /\ normalized # NotCalled =>
             IF strict /\ differs
             THEN normalized = Raise("ValueError", "requires normalization")
             ELSE Returned(normalized) /\ normalized.val[1].chars = t
        /\ (decoded # NotCalled /\ strict /\ differs) =>
             decoded = Raise("ValueError", "requires normalization")

C4_Witness ==
  /\ strict
  /\ symbol_string = Str(<<"o">>)
  /\ normalized = Raise("ValueError", "requires normalization")
  /\ decoded = Raise("ValueError", "requires normalization")

\* C5: normalize without strict returns exactly when the transformed form
\* matches the validity pattern; every other text makes it raise the
\* invalid-character error, and decode never returns a number for it.
C5_NormalizeAcceptsExactlyWellFormed ==
  (IsText(symbol_string) /\ ~strict) =>
    LET t == TransformedForm(symbol_string.chars)
    IN  /\ normalized # NotCalled =>
             IF WellFormed(t) THEN Returned(normalized) ELSE IsInvalidCharacter(normalized)
        /\ (decoded # NotCalled /\ ~WellFormed(t)) => Raised(decoded)

\* C7: when normalize(s) returns, decode(s, checksum) has the outcome of
\* decode(normalize(s), checksum): the same number or the same error.
C7_DecodeTolerance ==
  (~strict /\ Returned(normalized) /\ decoded # NotCalled) =>
    decoded = decode(normalized.val[1], checksum, FALSE)

C7_Witness ==
  /\ ~strict
  /\ ~checksum
  /\ symbol_string = Str(<<"i", "-", "a">>)
  /\ normalized = Return(Str(<<"1", "A">>))
  /\ decoded = Return(42)

\* C9: when normalize(s) returns, normalize applied to its result returns
\* that same result.
C9_NormalizeIdempotent ==
  (~strict /\ Returned(normalized)) =>
    normalize(normalized.val[1], FALSE) = normalized

C9_Witness ==
  /\ ~strict
  /\ symbol_string = Str(<<"o", "-", "-">>)
  /\ normalized = Return(Str(<<"0">>))

====
